---- MODULE Spec2Model ----
(***************************************************************************)
(* Model of src/app.py: the Streamlit stock forecast page.  One run of the *)
(* script after "Run Forecast" is pressed is modelled statement by         *)
(* statement: forecast_stock_price (download, no-data check, normalize,    *)
(* Prophet fit, predict, matplotlib render, the except clause) and the     *)
(* button handler that unpacks its result and writes the page.             *)
(***************************************************************************)
EXTENDS Integers, Sequences, FiniteSets, TLC

\* ------------------------------------------------------------- bounds
\* Most rows a fetched table has, and the last calendar day a row may carry.
MaxRows == 3
MaxDate == 3

\* ---------------------------------------------------------- constants
\* st.slider("Forecast period (days):", 30, 365, 100)
SliderMin == 30
SliderMax == 365
SliderDefault == 100
\* A missing closing price (what dropna removes); a real price is positive.
NaN == 0
\* Prophet refuses to fit a frame with fewer non-missing rows than this.
MinFitRows == 2

Prices == {5}
CloseValues == Prices \cup {NaN}
\* Half-widths of the uncertainty band the forecaster may produce.
Widths == {0, 1}
Dates == 1..MaxDate

\* Optional values: None, or Some(x).
None == <<>>
Some(x) == <<x>>
Get(o) == o[1]

\* ------------------------------------------------------------- inputs
\* What the user may have typed in the text box, before .upper().
TextInputs == {"", "aapl", "ZZZZZZ"}
upper(s) == IF s = "aapl" THEN "AAPL" ELSE s
Horizons == {SliderMin, SliderDefault, SliderMax}
ChartTypes == {"Line", "Candlestick"}

\* ------------------------------------------------- the fetched table
AllColumns == {"Adj Close", "Close", "High", "Low", "Open", "Volume"}
ColumnSets ==
    { AllColumns,
      AllColumns \ {"High", "Low"},
      AllColumns \ {"Open"},
      AllColumns \ {"Close"} }

Min(S) == CHOOSE x \in S : \A y \in S : x <= y

RECURSIVE SortedSeq(_)
SortedSeq(S) ==
    IF S = {} THEN <<>> ELSE <<Min(S)>> \o SortedSeq(S \ {Min(S)})

\* The provider's index: trading days in increasing order, one row a day.
RowSeqs ==
    UNION { { [i \in 1..Cardinality(S) |->
                 [Date |-> SortedSeq(S)[i], Close |-> f[SortedSeq(S)[i]]]]
              : f \in [S -> CloseValues] }
            : S \in {T \in SUBSET Dates : Cardinality(T) <= MaxRows} }

\* A table without a Close column carries no closing price at all.
Tables ==
    { t \in [columns : ColumnSets, rows : RowSeqs] :
        \/ "Close" \in t.columns
        \/ \A i \in 1..Len(t.rows) : t.rows[i].Close = NaN }

\* yf.download raising instead of returning (the network layer gave up).
FetchErrors == {"ConnectionError"}

VARIABLES
    pc,             \* position of the script
    ticker,         \* line 19
    forecast_days,  \* line 20
    chart_type,     \* line 21
    df_raw,         \* forecast_stock_price: the fetched table
    df,             \* forecast_stock_price: the normalized series
    model,          \* forecast_stock_price: the Prophet model, once fitted
    forecast,       \* forecast_stock_price: the predicted frame
    buf,            \* forecast_stock_price: fig and its PNG buffer
    exc,            \* the exception raised in this run, if any
    result,         \* what forecast_stock_price returned to the handler
    display         \* the elements written to the page in this run

vars == <<pc, ticker, forecast_days, chart_type, df_raw, df, model, forecast,
          buf, exc, result, display>>

locals == <<df_raw, df, model, forecast, buf>>
inputs == <<ticker, forecast_days, chart_type>>

Init ==
    /\ pc = "idle"
    /\ ticker = "AAPL"
    /\ forecast_days = SliderDefault
    /\ chart_type = "Line"
    /\ df_raw = None
    /\ df = None
    /\ model = None
    /\ forecast = None
    /\ buf = None
    /\ exc = None
    /\ result = None
    /\ display = <<>>

\* An element of the page: the Streamlit call, the text as its parts, and
\* the object handed over (a figure, a buffer, a row), if any.
Element(w, parts, data) == [widget |-> w, parts |-> parts, data |-> data]

Raise(stage, text) == Some([stage |-> stage, text |-> text])

\* --------------------------------------------- forecast_stock_price
\* df_raw.empty or "Close" not in df_raw.columns
\* A variant that looks at the rows alone, not at the Close column.
NoDataEmptyOnly(t) == Len(t.rows) = 0
NoData(t) == Len(t.rows) = 0 \/ "Close" \notin t.columns

\* st.error(f"No data found for {ticker}.")
NoDataMessage(t) == Element("error", <<"No data found for ", t, ".">>, None)

\* A variant whose message leaves the cause out.
ErrorMessageNoCause(e) == Element("error", <<"An error occurred">>, None)
\* st.error(f"An error occurred: {e}")
ErrorMessage(e) == Element("error", <<"An error occurred: ", e>>, None)

\* df_raw.reset_index()[["Date", "Close"]] with the columns renamed ds, y
ResetIndexSelect(t) ==
    [i \in 1..Len(t.rows) |-> [ds |-> t.rows[i].Date, y |-> t.rows[i].Close]]

IsPresent(r) == r.y # NaN
\* A variant that drops nothing.
KeepAll(s) == s
\* df.dropna(subset=["y"])
dropna(s) == SelectSeq(s, IsPresent)

\* Prophet.fit: too few non-missing rows is a ValueError.
TooFewRows(d) == Cardinality({i \in 1..Len(d) : d[i].y # NaN}) < MinFitRows

\* Prophet.fit keeps the history's dates.
Fitted(d) == [history_dates |-> [i \in 1..Len(d) |-> d[i].ds]]

\* model.make_future_dataframe(periods): the history's dates, then one date
\* per calendar day after the last of them.
make_future_dataframe(m, periods) ==
    m.history_dates \o
        [i \in 1..periods |-> m.history_dates[Len(m.history_dates)] + i]

\* model.predict(future): a point and its band for every date; level and
\* width stand for whatever the fitted model came to.
predict(future, level, width) ==
    [i \in 1..Len(future) |->
        [ds |-> future[i], yhat |-> level,
         yhat_lower |-> level - width, yhat_upper |-> level + width]]

\* plt.subplots ... fig.savefig(buf, format="png")
Figure(t, d, fc) ==
    [title |-> <<t, " Stock Price Forecast">>,
     actual |-> Len(d), predicted |-> Len(fc), band |-> Len(fc)]
SaveFig(fig) == [format |-> "png", fig |-> fig]

\* st.info(f"Downloading data for {ticker}...")
Info ==
    /\ pc = "info"
    /\ display' = Append(display,
                     Element("info", <<"Downloading data for ", ticker, "...">>, None))
    /\ pc' = "download"
    /\ UNCHANGED <<inputs, locals, exc, result>>

\* yf.download(ticker, start=three_years_ago, end=today, auto_adjust=False)
Download ==
    /\ pc = "download"
    /\ \/ \E t \in Tables :
            /\ df_raw' = Some(t)
            /\ pc' = "check"
            /\ exc' = exc
       \/ \E e \in FetchErrors :
            /\ exc' = Raise("fetch", e)
            /\ pc' = "except"
            /\ df_raw' = df_raw
    /\ UNCHANGED <<inputs, df, model, forecast, buf, result, display>>

\* if df_raw.empty or "Close" not in df_raw.columns: st.error; return None x 4
CheckNoData ==
    /\ pc = "check"
    /\ IF NoData(Get(df_raw))
         THEN /\ display' = Append(display, NoDataMessage(ticker))
              /\ result' = None
              /\ pc' = "unpack"
         ELSE /\ pc' = "normalize"
              /\ UNCHANGED <<display, result>>
    /\ UNCHANGED <<inputs, locals, exc>>

\* df = df_raw.reset_index()[["Date", "Close"]]; rename; dropna
Normalize ==
    /\ pc = "normalize"
    /\ df' = Some(dropna(ResetIndexSelect(Get(df_raw))))
    /\ pc' = "fit"
    /\ UNCHANGED <<inputs, df_raw, model, forecast, buf, exc, result, display>>

\* model = Prophet(daily_seasonality=True); model.fit(df)
Fit ==
    /\ pc = "fit"
    /\ \/ /\ TooFewRows(Get(df))
          /\ exc' = Raise("fit", "Dataframe has less than 2 non-NaN rows")
          /\ pc' = "except"
          /\ model' = model
       \/ /\ ~TooFewRows(Get(df))
          /\ exc' = Raise("fit", "FitError")
          /\ pc' = "except"
          /\ model' = model
       \/ /\ ~TooFewRows(Get(df))
          /\ model' = Some(Fitted(Get(df)))
          /\ pc' = "predict"
          /\ exc' = exc
    /\ UNCHANGED <<inputs, df_raw, df, forecast, buf, result, display>>

\* A variant that writes to the page as soon as the forecast is there.
PredictShowsEarly ==
    /\ pc = "predict"
    /\ \E level \in Prices, width \in Widths :
         /\ forecast' = Some(predict(
                make_future_dataframe(Get(model), forecast_days), level, width))
         /\ display' = Append(display, Element("success", <<"Forecast ready">>, None))
    /\ pc' = "plot"
    /\ UNCHANGED <<inputs, df_raw, df, model, buf, exc, result>>

\* future = model.make_future_dataframe(periods=forecast_days)
\* forecast = model.predict(future)
Predict ==
    /\ pc = "predict"
    /\ \/ \E level \in Prices, width \in Widths :
            /\ forecast' = Some(predict(
                   make_future_dataframe(Get(model), forecast_days), level, width))
            /\ pc' = "plot"
            /\ exc' = exc
       \/ /\ exc' = Raise("predict", "PredictError")
          /\ pc' = "except"
          /\ forecast' = forecast
    /\ UNCHANGED <<inputs, df_raw, df, model, buf, result, display>>

\* the matplotlib figure, saved to a buffer; return df_raw, forecast, fig, buf
Plot ==
    /\ pc = "plot"
    /\ \/ /\ buf' = Some(SaveFig(Figure(ticker, Get(df), Get(forecast))))
          /\ result' = Some([df_raw |-> Get(df_raw), forecast |-> Get(forecast),
                             fig |-> Figure(ticker, Get(df), Get(forecast)),
                             buf |-> SaveFig(Figure(ticker, Get(df), Get(forecast)))])
          /\ pc' = "unpack"
          /\ exc' = exc
       \/ /\ exc' = Raise("render", "RenderError")
          /\ pc' = "except"
          /\ UNCHANGED <<buf, result>>
    /\ UNCHANGED <<inputs, df_raw, df, model, forecast, display>>

\* A variant that swallows the exception without a message.
ExceptSilent ==
    /\ pc = "except"
    /\ result' = None
    /\ pc' = "unpack"
    /\ UNCHANGED <<inputs, locals, exc, display>>

\* A variant that lets the exception through.
ExceptReraise ==
    /\ pc = "except"
    /\ pc' = "uncaught"
    /\ UNCHANGED <<inputs, locals, exc, result, display>>

\* except Exception as e: st.error(f"An error occurred: {e}"); return None x 4
Except ==
    /\ pc = "except"
    /\ display' = Append(display, ErrorMessage(Get(exc).text))
    /\ result' = None
    /\ pc' = "unpack"
    /\ UNCHANGED <<inputs, locals, exc>>

\* ------------------------------------------------ the button handler
\* if st.button("Run Forecast"): if ticker: forecast_stock_price(...)
\* The script runs from its first line on every press: the widgets are read
\* anew, every name is unbound and the page is rebuilt.
RunForecast ==
    /\ pc \in {"idle", "done", "uncaught"}
    /\ \E t \in TextInputs, d \in Horizons, c \in ChartTypes :
         /\ ticker' = upper(t)
         /\ forecast_days' = d
         /\ chart_type' = c
         /\ pc' = IF upper(t) # "" THEN "info" ELSE "done"
    /\ df_raw' = None
    /\ df' = None
    /\ model' = None
    /\ forecast' = None
    /\ buf' = None
    /\ exc' = None
    /\ result' = None
    /\ display' = <<>>

\* df_raw, forecast, fig, buf = forecast_stock_price(...); if df_raw is not None
Unpack ==
    /\ pc = "unpack"
    /\ pc' = IF result # None THEN "summary" ELSE "done"
    /\ UNCHANGED <<inputs, locals, exc, result, display>>

\* A variant that reads the first row, not the last.
FirstDay(fc) == fc[1]
\* last_day = forecast.iloc[-1]
LastDay(fc) == fc[Len(fc)]

\* st.success(f"Forecast for {ds.date()}: **${yhat:.2f}** (Range: $.. ~ $..)")
SummaryLine(last_day) ==
    Element("success", <<"Forecast for ", ": $", " (Range: $", " ~ $", ")">>,
            [ds |-> last_day.ds, yhat |-> last_day.yhat,
             yhat_lower |-> last_day.yhat_lower,
             yhat_upper |-> last_day.yhat_upper])

Summary ==
    /\ pc = "summary"
    /\ \/ /\ display' = Append(display, SummaryLine(LastDay(Get(result).forecast)))
          /\ pc' = "chart"
          /\ exc' = exc
       \/ /\ exc' = Raise("summary", "SummaryError")
          /\ pc' = "uncaught"
          /\ display' = display
    /\ UNCHANGED <<inputs, locals, result>>

\* A variant that asks for Open and Close only.
HasOpenClose(cols) == {"Open", "Close"} \subseteq cols
\* {"Open", "High", "Low", "Close"}.issubset(df_raw.columns)
HasOHLC(cols) == {"Open", "High", "Low", "Close"} \subseteq cols

\* go.Figure(data=[go.Candlestick(x=df_raw.index, open=.., high=.., ..)])
Candlestick(t, table) ==
    [title |-> <<t, " Candlestick Chart">>, x |-> Len(table.rows)]

\* if chart_type == "Line": st.pyplot(fig)
ChartLine ==
    /\ pc = "chart"
    /\ chart_type = "Line"
    /\ \/ /\ display' = Append(display, Element("pyplot", <<>>, Some(Get(result).fig)))
          /\ pc' = "png"
          /\ exc' = exc
       \/ /\ exc' = Raise("chart", "PyplotError")
          /\ pc' = "uncaught"
          /\ display' = display
    /\ UNCHANGED <<inputs, locals, result>>

\* else: the candlestick figure when the columns are there, else st.warning
ChartCandlestick ==
    /\ pc = "chart"
    /\ chart_type # "Line"
    /\ \/ /\ HasOHLC(Get(result).df_raw.columns)
          /\ display' = Append(display,
                Element("plotly_chart", <<>>,
                        Some(Candlestick(ticker, Get(result).df_raw))))
          /\ pc' = "png"
          /\ exc' = exc
       \/ /\ HasOHLC(Get(result).df_raw.columns)
          /\ exc' = Raise("chart", "CandlestickError")
          /\ pc' = "uncaught"
          /\ display' = display
       \/ /\ ~HasOHLC(Get(result).df_raw.columns)
          /\ display' = Append(display,
                Element("warning",
                  <<"Candlestick chart could not be generated due to missing data.">>,
                  None))
          /\ pc' = "png"
          /\ exc' = exc
    /\ UNCHANGED <<inputs, locals, result>>

\* st.download_button(label=.. (PNG), data=buf, file_name=.., mime="image/png")
DownloadPng ==
    /\ pc = "png"
    /\ \/ /\ display' = Append(display,
                Element("download_button", <<ticker, "_stock_forecast.png">>,
                        Some(Get(result).buf)))
          /\ pc' = "csv"
          /\ exc' = exc
       \/ /\ exc' = Raise("png", "ExportError")
          /\ pc' = "uncaught"
          /\ display' = display
    /\ UNCHANGED <<inputs, locals, result>>

\* df_raw.to_csv(index=True): a header line, then a line per row
to_csv(table) == <<table.columns>> \o table.rows

\* st.download_button(label=.. (CSV), data=df_raw.to_csv(..).encode("utf-8"), ..)
DownloadCsv ==
    /\ pc = "csv"
    /\ \/ /\ display' = Append(display,
                Element("download_button", <<ticker, "_historical_data.csv">>,
                        Some(to_csv(Get(result).df_raw))))
          /\ pc' = "done"
          /\ exc' = exc
       \/ /\ exc' = Raise("csv", "ExportError")
          /\ pc' = "uncaught"
          /\ display' = display
    /\ UNCHANGED <<inputs, locals, result>>

Next ==
    \/ RunForecast
    \/ Info
    \/ Download
    \/ CheckNoData
    \/ Normalize
    \/ Fit
    \/ Predict
    \/ Plot
    \/ Except
    \/ Unpack
    \/ Summary
    \/ ChartLine
    \/ ChartCandlestick
    \/ DownloadPng
    \/ DownloadCsv

Spec == Init /\ [][Next]_vars

\* ------------------------------------------------------------ claims
Widgets(d) == [i \in 1..Len(d) |-> d[i].widget]
Count(d, w) == Cardinality({i \in 1..Len(d) : d[i].widget = w})
RunEnded == pc \in {"done", "uncaught"}
Failed(stages) == exc # None /\ Get(exc).stage \in stages
\* The fetched table is empty or has no Close column.
FetchedNothing ==
    /\ df_raw # None
    /\ (Len(Get(df_raw).rows) = 0 \/ "Close" \notin Get(df_raw).columns)
\* The run showed its notice and one error, and handed nothing to the handler.
ErrorOutcome == Widgets(display) = <<"info", "error">> /\ result = None
\* The steps of forecast_stock_price are over: one failed, the fetch brought
\* nothing, or the figure is rendered and saved.
PipelineOver == exc # None \/ FetchedNothing \/ buf # None
Grows == Len(display') > Len(display)

\* C1: a failure raised at any stage of a run is caught and shown as exactly
\* one error message; no run ends with an exception escaping the script.
C1_EveryFailureCaught ==
    (RunEnded /\ exc # None) => (pc = "done" /\ Count(display, "error") = 1)

\* C2: when the fetch returns an empty table or one without a Close column,
\* the run reports "No data found", the model is never fitted, and no summary
\* line, chart or download button is produced.
C2_NoDataReported ==
    (FetchedNothing /\ pc # "check") =>
        /\ pc \in {"unpack", "done"}
        /\ ErrorOutcome
        /\ display[2].parts = <<"No data found for ", ticker, ".">>
        /\ df = None /\ model = None /\ forecast = None /\ buf = None

C2_Witness ==
    /\ pc = "done"
    /\ df_raw # None
    /\ Len(Get(df_raw).rows) > 0
    /\ "Close" \notin Get(df_raw).columns

\* C3: when the model fit or the prediction fails, the run ends with one
\* error message and no partial result: no summary line, no chart, no
\* download button.
C3_FitFailureAborts ==
    Failed({"fit", "predict"}) =>
        /\ pc \in {"except", "unpack", "done"}
        /\ Count(display, "success") = 0
        /\ Count(display, "pyplot") = 0
        /\ Count(display, "plotly_chart") = 0
        /\ Count(display, "download_button") = 0
        /\ pc # "except" =>
             /\ ErrorOutcome
             /\ display[2].parts = <<"An error occurred: ", Get(exc).text>>

C3_Witness ==
    /\ pc = "done"
    /\ Failed({"fit"})
    /\ Get(exc).text = "Dataframe has less than 2 non-NaN rows"
    /\ Len(Get(df)) = 1

\* C4 as stated: nothing is written to the page before the steps of the
\* pipeline are over.
C4_NothingShownBeforePipelineEnds ==
    [][Grows => PipelineOver]_vars

\* C4 as amended: apart from the "Downloading data" notice, which is written
\* before the fetch, every element is written to the page after fetch,
\* normalize, fit, predict and the static render have finished or one failed.
C4_OnlyNoticeBeforePipelineEnds ==
    [][Grows =>
         IF display'[Len(display')].widget = "info"
           THEN display = <<>> /\ df_raw = None /\ exc = None
           ELSE PipelineOver]_vars

C4_Witness ==
    /\ pc = "chart"
    /\ buf # None
    /\ Widgets(display) = <<"info", "success">>

\* C5: every run, for any ticker including the empty string, ends in exactly
\* one of showing-result or showing-error.
C5_EveryRunShowsResultOrError ==
    RunEnded =>
        \/ /\ Count(display, "success") = 1
           /\ Count(display, "download_button") = 2
           /\ Count(display, "error") = 0
        \/ /\ Count(display, "error") = 1
           /\ Count(display, "success") = 0

CandlestickUnavailable ==
    /\ chart_type = "Candlestick"
    /\ df_raw # None
    /\ ~({"Open", "High", "Low", "Close"} \subseteq Get(df_raw).columns)

\* C6 as stated, read in its favour (the table has rows and nothing raised):
\* with Candlestick selected and any of Open, High, Low, Close missing, the
\* run shows a warning, no error, the summary line and both download buttons.
C6_MissingColumnOnlyWarns ==
    (/\ CandlestickUnavailable
     /\ Len(Get(df_raw).rows) > 0
     /\ exc = None
     /\ RunEnded) =>
        /\ Count(display, "warning") = 1
        /\ Count(display, "error") = 0
        /\ Count(display, "success") = 1
        /\ Count(display, "download_button") = 2

ChartStepDone ==
    \/ pc \in {"png", "csv", "done"}
    \/ pc = "uncaught" /\ Failed({"png", "csv"})

\* C6 as amended: with Candlestick selected and a table that reached the
\* handler (it has rows and a Close column) but lacks Open, High or Low, the
\* chart step writes a warning and does not fail: the summary line is on the
\* page, no error is, no candlestick chart is, and the handler goes on to the
\* download buttons, both of which are on the page when the run completes.
C6_WarningInsteadOfCandlestick ==
    (CandlestickUnavailable /\ result # None) =>
        /\ ~(pc = "uncaught" /\ Failed({"chart"}))
        /\ ChartStepDone =>
             /\ SubSeq(Widgets(display), 1, 3) = <<"info", "success", "warning">>
             /\ Count(display, "error") = 0
             /\ Count(display, "plotly_chart") = 0
        /\ pc = "done" =>
             Widgets(display) = <<"info", "success", "warning",
                                  "download_button", "download_button">>

C6_Witness ==
    /\ CandlestickUnavailable
    /\ "High" \notin Get(df_raw).columns
    /\ pc = "done"
    /\ Count(display, "warning") = 1

AllClosesMissing ==
    /\ df_raw # None
    /\ Len(Get(df_raw).rows) > 0
    /\ "Close" \in Get(df_raw).columns
    /\ \A i \in 1..Len(Get(df_raw).rows) : Get(df_raw).rows[i].Close = NaN

IsGeneric(el) == Len(el.parts) = 2 /\ el.parts[1] = "An error occurred: "

\* C8 as stated: every error message has the one generic form and carries
\* the text of its cause.
C8_OneGenericForm ==
    \A i \in 1..Len(display) :
        display[i].widget = "error" =>
            /\ IsGeneric(display[i])
            /\ exc # None
            /\ display[i].parts[2] = Get(exc).text

\* C8 as amended: every exception raised inside forecast_stock_price (a
\* network failure, an empty series, a fit, predict or render failure) is
\* shown as "An error occurred: <cause>", the same form for all of them; the
\* no-data condition is shown as "No data found for <ticker>.", which carries
\* no cause text.
C8_GenericFormForExceptions ==
    /\ \A i \in 1..Len(display) :
          display[i].widget = "error" =>
              \/ /\ exc # None
                 /\ display[i].parts = <<"An error occurred: ", Get(exc).text>>
              \/ /\ exc = None
                 /\ FetchedNothing
                 /\ display[i].parts = <<"No data found for ", ticker, ".">>
    /\ (Failed({"fetch", "fit", "predict", "render"}) /\ pc # "except") =>
          /\ Count(display, "error") = 1
          /\ display[2].parts = <<"An error occurred: ", Get(exc).text>>

C8_Witness ==
    /\ pc = "done"
    /\ Failed({"fetch"})
    /\ Count(display, "error") = 1

\* C9: for a series of at least two rows and a horizon H in 30..365, the
\* forecast covers the historical dates and then exactly H calendar days
\* after the last of them, every point lies within its band, and the summary
\* line reports the point of the last horizon day (last date + H).
C9_ForecastCoversHorizon ==
    forecast # None =>
        LET d == Get(df)
            fc == Get(forecast)
            H == forecast_days
        IN  /\ Len(d) >= 2
            /\ H \in SliderMin..SliderMax
            /\ Len(fc) = Len(d) + H
            /\ \A i \in 1..Len(d) : fc[i].ds = d[i].ds
            /\ \A j \in 1..H : fc[Len(d) + j].ds = d[Len(d)].ds + j
            /\ \A i \in 1..Len(fc) :
                  fc[i].yhat_lower <= fc[i].yhat /\ fc[i].yhat <= fc[i].yhat_upper
            /\ \A i \in 1..Len(display) :
                  display[i].widget = "success" =>
                      /\ display[i].data.ds = d[Len(d)].ds + H
                      /\ display[i].data = fc[Len(fc)]

C9_Witness ==
    /\ pc = "done"
    /\ forecast_days = SliderMax
    /\ Count(display, "success") = 1
    /\ Len(Get(df)) = 2
    /\ Get(df)[1].ds + 1 < Get(df)[2].ds

====
